---- MODULE Spec2Model ----
(***************************************************************************)
(* Model of src/counter.rs: the line classifier tables, the per-file scan  *)
(* (count_file), the merge into the shared map (process_file), the worker  *)
(* loop (process_files) and the dispatcher (count).                        *)
(*                                                                         *)
(* Strings are sequences of characters (one-character strings), so that    *)
(* trim, starts_with, ends_with and len are computed, not assumed.  The    *)
(* character "U+235D" stands for the APL lamp sign, three bytes in UTF-8.  *)
(***************************************************************************)
EXTENDS Naturals, Integers, Sequences, FiniteSets, TLC

(***************************************************************************)
(* Bounds of the model.                                                    *)
(***************************************************************************)
\* longest file list handed to count
MaxFiles == 6
\* number of positions of the file list that hold another file than DefaultFile
MaxVaried == 1
\* longest file read by the stand-alone scan of ScanSpec
MaxLines == 4

(***************************************************************************)
(* Strings.                                                                *)
(***************************************************************************)
WhiteSpace == {" ", "\t"}

\* str::len counts bytes of the UTF-8 encoding
ByteWidth(c) == IF c = "U+235D" THEN 3 ELSE 1

RECURSIVE ByteLen(_)
ByteLen(s) == IF s = <<>> THEN 0 ELSE ByteWidth(Head(s)) + ByteLen(Tail(s))

RECURSIVE TrimStart(_)
TrimStart(s) ==
    IF s # <<>> /\ Head(s) \in WhiteSpace THEN TrimStart(Tail(s)) ELSE s

RECURSIVE TrimEnd(_)
TrimEnd(s) ==
    IF s # <<>> /\ s[Len(s)] \in WhiteSpace
    THEN TrimEnd(SubSeq(s, 1, Len(s) - 1))
    ELSE s

Trim(s) == TrimEnd(TrimStart(s))

starts_with(s, p) == Len(p) <= Len(s) /\ SubSeq(s, 1, Len(p)) = p

ends_with(s, p) ==
    Len(p) <= Len(s) /\ SubSeq(s, Len(s) - Len(p) + 1, Len(s)) = p

(***************************************************************************)
(* Classifier tables (lazy_static block).                                  *)
(***************************************************************************)
SINGLE_COMMENT_PREFIXES ==
    { <<"/", "/">>,
      <<"/", "/", "/">>,
      <<"#">>,
      <<"!">>,
      <<"-", "-">>,
      <<"%">>,
      <<";">>,
      <<"#", ";">>,
      <<"U+235D">>,
      <<"r", "e", "m", " ">>,
      <<":", ":">>,
      <<":", " ", " ">>,
      <<"'">> }

BLOCK_COMMENT_PREFIXES ==
    { <<"/", "*">>,
      <<"/", "*", "*">>,
      <<"-", "-">>,
      <<"<", "!", "-", "-">>,
      <<"<", "%", "-", "-">>,
      <<"/", "/", "/", "/">>,
      <<"/", "+">>,
      <<"/", "+", "+">>,
      <<"(", "*">>,
      <<"{", "-">>,
      <<"\"", "\"", "\"">>,
      <<"'", "'", "'">>,
      <<"#", "=">>,
      <<"-", "-", "[", "[">>,
      <<"%", "{">>,
      <<"#", "[">>,
      <<"=", "p", "o", "d">>,
      <<"=", "c", "o", "m", "m", "e", "n", "t">>,
      <<"=", "b", "e", "g", "i", "n">>,
      <<"<", "#">>,
      <<"#", "|">> }

BLOCK_COMMENT_SUFFIXES ==
    { <<"*", "/">>,
      <<"*", "*", "/">>,
      <<"-", "-", ">">>,
      <<"-", "-", "%", ">">>,
      <<"-", "-">>,
      <<"+", "/">>,
      <<"*", ")">>,
      <<"-", "}">>,
      <<"%", "}">>,
      <<"=", "#">>,
      <<"=", "c", "u", "t">>,
      <<"=", "e", "n", "d">>,
      <<"-", "-", "]", "]">>,
      <<"]", "#">>,
      <<"#", ">">>,
      <<"\"", "\"", "\"">>,
      <<"'", "'", "'">>,
      <<"|", "#">> }

is_single_comment(line) ==
    \E prefix \in SINGLE_COMMENT_PREFIXES : starts_with(line, prefix)

is_begin_block_comments(line) ==
    \E prefix \in BLOCK_COMMENT_PREFIXES : starts_with(line, prefix)

\* a close test that looks at the start of the line
is_end_block_comments_prefix(line) ==
    \E suffix \in BLOCK_COMMENT_SUFFIXES : starts_with(line, suffix)

is_end_block_comments(line) ==
    \E suffix \in BLOCK_COMMENT_SUFFIXES : ends_with(line, suffix)

(***************************************************************************)
(* FileInfo and the per-line step of count_file.                           *)
(***************************************************************************)
EmptyStr == <<>>

FileInfoDefault ==
    [filetype |-> EmptyStr, steps |-> 0, blanks |-> 0, comments |-> 0,
     files |-> 0, bytes |-> 0]

\* file name of a path: the text after the last "/"
RECURSIVE file_name(_)
file_name(path) ==
    IF \E i \in 1..Len(path) : path[i] = "/"
    THEN file_name(Tail(path))
    ELSE path

\* position of the last "." of a name, 0 if there is none
LastDot(name) ==
    IF \E i \in 1..Len(name) : name[i] = "."
    THEN CHOOSE i \in 1..Len(name) :
            /\ name[i] = "."
            /\ \A j \in (i + 1)..Len(name) : name[j] # "."
    ELSE 0

\* Path::extension: the text after the last "." of the file name; none when
\* the name has no "." or only a leading one
HasExtension(path) == LastDot(file_name(path)) > 1

\* a tag that is folded to lower case
LowerCase(c) ==
    CASE c = "M" -> "m" [] c = "R" -> "r" [] c = "S" -> "s" [] OTHER -> c

ret_file_type_lower(path) ==
    LET name == file_name(path)
        tag == IF HasExtension(path)
               THEN SubSeq(name, LastDot(name) + 1, Len(name))
               ELSE name
    IN  [i \in 1..Len(tag) |-> LowerCase(tag[i])]

ret_file_type(path) ==
    LET name == file_name(path)
    IN  IF HasExtension(path)
        THEN SubSeq(name, LastDot(name) + 1, Len(name))
        ELSE name

\* scanner state: the FileInfo being built and in_block_comment
ScanStart(path) ==
    [info |-> [FileInfoDefault EXCEPT !.filetype = ret_file_type(path)],
     in_block_comment |-> FALSE]

\* the loop body with the in-block test ahead of the block-open test
ScanLineInBlockFirst(sc, raw) ==
    LET line == Trim(raw)
        counted == [sc.info EXCEPT !.steps = @ + 1,
                                   !.bytes = @ + ByteLen(line) + 1]
    IN  IF line = EmptyStr
        THEN [sc EXCEPT !.info = [counted EXCEPT !.blanks = @ + 1]]
        ELSE IF is_single_comment(line)
        THEN [sc EXCEPT !.info = [counted EXCEPT !.comments = @ + 1]]
        ELSE IF sc.in_block_comment
        THEN [info |-> [counted EXCEPT !.comments = @ + 1],
              in_block_comment |-> ~is_end_block_comments(line)]
        ELSE IF is_begin_block_comments(line)
        THEN [info |-> [counted EXCEPT !.comments = @ + 1],
              in_block_comment |-> TRUE]
        ELSE [sc EXCEPT !.info = counted]

\* the loop body with the in-block test ahead of the single-line test
ScanLineInBlockBeforeSingle(sc, raw) ==
    LET line == Trim(raw)
        counted == [sc.info EXCEPT !.steps = @ + 1,
                                   !.bytes = @ + ByteLen(line) + 1]
    IN  IF line = EmptyStr
        THEN [sc EXCEPT !.info = [counted EXCEPT !.blanks = @ + 1]]
        ELSE IF sc.in_block_comment
        THEN [info |-> [counted EXCEPT !.comments = @ + 1],
              in_block_comment |-> ~is_end_block_comments(line)]
        ELSE IF is_single_comment(line)
        THEN [sc EXCEPT !.info = [counted EXCEPT !.comments = @ + 1]]
        ELSE IF is_begin_block_comments(line)
        THEN [info |-> [counted EXCEPT !.comments = @ + 1],
              in_block_comment |-> TRUE]
        ELSE [sc EXCEPT !.info = counted]

\* the loop body with the byte count taken before the trim
ScanLineRawLen(sc, raw) ==
    LET line == Trim(raw)
        counted == [sc.info EXCEPT !.steps = @ + 1,
                                   !.bytes = @ + ByteLen(raw) + 1]
    IN  IF line = EmptyStr
        THEN [sc EXCEPT !.info = [counted EXCEPT !.blanks = @ + 1]]
        ELSE IF is_single_comment(line)
        THEN [sc EXCEPT !.info = [counted EXCEPT !.comments = @ + 1]]
        ELSE IF is_begin_block_comments(line)
        THEN [info |-> [counted EXCEPT !.comments = @ + 1],
              in_block_comment |-> TRUE]
        ELSE IF sc.in_block_comment
        THEN [info |-> [counted EXCEPT !.comments = @ + 1],
              in_block_comment |-> ~is_end_block_comments(line)]
        ELSE [sc EXCEPT !.info = counted]

\* the loop body without the `continue` after the block-open test
ScanLineNoContinue(sc, raw) ==
    LET line == Trim(raw)
        counted == [sc.info EXCEPT !.steps = @ + 1,
                                   !.bytes = @ + ByteLen(line) + 1]
    IN  IF line = EmptyStr
        THEN [sc EXCEPT !.info = [counted EXCEPT !.blanks = @ + 1]]
        ELSE IF is_single_comment(line)
        THEN [sc EXCEPT !.info = [counted EXCEPT !.comments = @ + 1]]
        ELSE IF is_begin_block_comments(line)
        THEN [info |-> [counted EXCEPT !.comments = @ + 2],
              in_block_comment |-> ~is_end_block_comments(line)]
        ELSE IF sc.in_block_comment
        THEN [info |-> [counted EXCEPT !.comments = @ + 1],
              in_block_comment |-> ~is_end_block_comments(line)]
        ELSE [sc EXCEPT !.info = counted]

\* the loop body with the block-open test ahead of the single-line test
ScanLineBlockFirst(sc, raw) ==
    LET line == Trim(raw)
        counted == [sc.info EXCEPT !.steps = @ + 1,
                                   !.bytes = @ + ByteLen(line) + 1]
    IN  IF line = EmptyStr
        THEN [sc EXCEPT !.info = [counted EXCEPT !.blanks = @ + 1]]
        ELSE IF is_begin_block_comments(line)
        THEN [info |-> [counted EXCEPT !.comments = @ + 1],
              in_block_comment |-> TRUE]
        ELSE IF is_single_comment(line)
        THEN [sc EXCEPT !.info = [counted EXCEPT !.comments = @ + 1]]
        ELSE IF sc.in_block_comment
        THEN [info |-> [counted EXCEPT !.comments = @ + 1],
              in_block_comment |-> ~is_end_block_comments(line)]
        ELSE [sc EXCEPT !.info = counted]

\* one iteration of the loop over scanner.lines(), for a line read without
\* error
ScanLine(sc, raw) ==
    LET line == Trim(raw)
        counted == [sc.info EXCEPT !.steps = @ + 1,
                                   !.bytes = @ + ByteLen(line) + 1]
    IN  IF line = EmptyStr
        THEN [sc EXCEPT !.info = [counted EXCEPT !.blanks = @ + 1]]
        ELSE IF is_single_comment(line)
        THEN [sc EXCEPT !.info = [counted EXCEPT !.comments = @ + 1]]
        ELSE IF is_begin_block_comments(line)
        THEN [info |-> [counted EXCEPT !.comments = @ + 1],
              in_block_comment |-> TRUE]
        ELSE IF sc.in_block_comment
        THEN [info |-> [counted EXCEPT !.comments = @ + 1],
              in_block_comment |-> ~is_end_block_comments(line)]
        ELSE [sc EXCEPT !.info = counted]

(***************************************************************************)
(* The file system the program runs on: lines of text and files.           *)
(***************************************************************************)
\* the raw lines (before trim) that files are made of
LineText ==
    << <<" ">>,
       <<" ", " ", "/", "/", " ", "c", " ">>,
       <<"/", "*", " ", "s", "t", "a", "r", "t">>,
       <<"s", "t", "i", "l", "l", " ", "i", "n", "s", "i", "d", "e">>,
       <<"e", "n", "d", " ", "*", "/">>,
       <<"c", "o", "d", "e", "(", ")", ";">>,
       <<"-", "-", " ", "x">>,
       <<"/", "*", " ", "x", "y", "z", ".", " ", "*", "/">>,
       <<"-", "-", ">">>,
       <<"#", "=", " ", "j">>,
       <<"U+235D", " ", "x">> >>

LineIds == 1..Len(LineText)

\* a file: its path, its lines, whether File::open succeeds, and the line
\* whose read fails (0: every read succeeds)
FS ==
    << [path |-> <<"s", "r", "c", "/", "m", "a", "i", "n", ".", "r", "s">>,
        lines |-> <<3>>, readable |-> TRUE, bad_at |-> 0],
       [path |-> <<"M", "a", "i", "n", ".", "R", "S">>,
        lines |-> <<4, 3, 5, 1>>, readable |-> TRUE, bad_at |-> 0],
       [path |-> <<"l", "i", "b", ".", "p", "y">>,
        lines |-> <<6>>, readable |-> FALSE, bad_at |-> 0],
       [path |-> <<"M", "a", "k", "e", "f", "i", "l", "e">>,
        lines |-> <<2, 6>>, readable |-> TRUE, bad_at |-> 2] >>

FileIds == 1..Len(FS)

DefaultFile == 1

\* the file lists count is called with
FileLists ==
    { l \in UNION { [1..n -> FileIds] : n \in 0..MaxFiles } :
        Cardinality({ i \in DOMAIN l : l[i] # DefaultFile }) <= MaxVaried }

(***************************************************************************)
(* count_file as a function of the file: the result of the whole scan.     *)
(***************************************************************************)
RECURSIVE ScanFrom(_, _, _)
ScanFrom(sc, lines, k) ==
    IF k > Len(lines)
    THEN sc
    ELSE ScanFrom(ScanLine(sc, LineText[lines[k]]), lines, k + 1)

ScanFails(f) == ~FS[f].readable \/ FS[f].bad_at \in 1..Len(FS[f].lines)

count_file(f) ==
    IF ScanFails(f)
    THEN [ok |-> FALSE, info |-> FileInfoDefault]
    ELSE [ok |-> TRUE, info |-> ScanFrom(ScanStart(FS[f].path), FS[f].lines, 1).info]

(***************************************************************************)
(* State.                                                                  *)
(***************************************************************************)
CONCURRENCY_THRESHOLD == 6

Main == 0
Workers == 1..3
Threads == {Main} \cup Workers
NoThread == 4

VARIABLES
    files,      \* count's argument: the file list
    pc,         \* where count is: start, spawn, join, seq, snapshot, assign, done, err
    chunks,     \* the chunks of the file list
    spawned,    \* number of handles pushed
    joined,     \* number of handles joined
    t_pc,       \* per thread: idle, open, read, lock, entry, update, done, failed
    t_files,    \* per thread: the files it loops over
    t_idx,      \* per thread: position of the current file in t_files
    t_scan,     \* per thread: the state of the running count_file
    t_pos,      \* per thread: number of lines read of the current file
    t_entry,    \* per thread: the bucket contents seen through entry
    buf_map,    \* the shared map, file type -> FileInfo
    lock,       \* the thread that holds the mutex of buf_map, or NoThread
    iter_keys,  \* the order in which buf_map.iter() yielded the keys
    result,     \* the CntResult under construction
    s_pc,       \* stand-alone scan: off, open, read, ok, err
    s_scan,     \* stand-alone scan: the state of count_file
    s_lines,    \* stand-alone scan: the lines read so far
    s_cats      \* stand-alone scan: how each line read was counted

count_vars ==
    <<files, pc, chunks, spawned, joined, t_pc, t_files, t_idx, t_scan,
      t_pos, t_entry, buf_map, lock, iter_keys, result>>

scan_vars == <<s_pc, s_scan, s_lines, s_cats>>

vars == <<count_vars, scan_vars>>

CntResultDefault ==
    [info |-> <<>>, input_path |-> EmptyStr, all_steps |-> 0,
     all_blanks |-> 0, all_comments |-> 0, all_files |-> 0, all_bytes |-> 0]

InputPath == <<".">>

ScanIdle == [info |-> FileInfoDefault, in_block_comment |-> FALSE]

EmptyMap == [k \in {} |-> FileInfoDefault]

\* lines 33-38 of count: result, buf_map and len_files
CountInit(list) ==
    /\ files = list
    /\ pc = "start"
    /\ chunks = <<>>
    /\ spawned = 0
    /\ joined = 0
    /\ t_pc = [t \in Threads |-> "idle"]
    /\ t_files = [t \in Threads |-> <<>>]
    /\ t_idx = [t \in Threads |-> 1]
    /\ t_scan = [t \in Threads |-> ScanIdle]
    /\ t_pos = [t \in Threads |-> 0]
    /\ t_entry = [t \in Threads |-> FileInfoDefault]
    /\ buf_map = EmptyMap
    /\ lock = NoThread
    /\ iter_keys = <<>>
    /\ result = [CntResultDefault EXCEPT !.input_path = InputPath]

ScanOff ==
    /\ s_pc = "off"
    /\ s_scan = ScanIdle
    /\ s_lines = <<>>
    /\ s_cats = <<>>

Init ==
    /\ \E list \in FileLists : CountInit(list)
    /\ ScanOff

(***************************************************************************)
(* The dispatcher: count.                                                  *)
(***************************************************************************)
chunk_size(len_files) == (len_files + 2) \div 3

\* slice::chunks: consecutive slices of size n, the last one possibly shorter
RECURSIVE Chunks(_, _)
Chunks(list, n) ==
    IF list = <<>>
    THEN <<>>
    ELSE IF Len(list) <= n
    THEN <<list>>
    ELSE <<SubSeq(list, 1, n)>> \o Chunks(SubSeq(list, n + 1, Len(list)), n)

\* the state of a thread that starts a loop over a list of files
LoopStart(list) == IF list = <<>> THEN "done" ELSE "open"

\* a threshold that is off by one
ConcurrentStrict(list) == Len(list) > CONCURRENCY_THRESHOLD

\* line 40: the choice between the concurrent and the sequential path
Concurrent(list) == Len(list) >= CONCURRENCY_THRESHOLD

StartConcurrent ==
    /\ pc = "start"
    /\ Concurrent(files)
    /\ chunks' = Chunks(files, chunk_size(Len(files)))
    /\ pc' = "spawn"
    /\ UNCHANGED scan_vars
    /\ UNCHANGED <<files, spawned, joined, t_pc, t_files, t_idx, t_scan,
                   t_pos, t_entry, buf_map, lock, iter_keys, result>>

StartSequential ==
    /\ pc = "start"
    /\ ~Concurrent(files)
    /\ pc' = "seq"
    /\ t_files' = [t_files EXCEPT ![Main] = files]
    /\ t_pc' = [t_pc EXCEPT ![Main] = LoopStart(files)]
    /\ UNCHANGED scan_vars
    /\ UNCHANGED <<files, chunks, spawned, joined, t_idx, t_scan, t_pos,
                   t_entry, buf_map, lock, iter_keys, result>>

\* lines 45-49: one iteration of the loop that spawns the workers
Spawn ==
    /\ pc = "spawn"
    /\ spawned < Len(chunks)
    /\ LET w == spawned + 1
       IN  /\ t_files' = [t_files EXCEPT ![w] = chunks[w]]
           /\ t_pc' = [t_pc EXCEPT ![w] = LoopStart(chunks[w])]
           /\ spawned' = w
           /\ pc' = IF w = Len(chunks) THEN "join" ELSE "spawn"
    /\ UNCHANGED scan_vars
    /\ UNCHANGED <<files, chunks, joined, t_idx, t_scan, t_pos, t_entry,
                   buf_map, lock, iter_keys, result>>

\* a join that does not wait
FinishedAlways(w) == TRUE

\* JoinHandle::join returns once the thread has finished
Finished(w) == t_pc[w] = "done"

\* lines 51-53: one iteration of the loop that joins the workers
Join ==
    /\ pc = "join"
    /\ joined < spawned
    /\ Finished(joined + 1)
    /\ joined' = joined + 1
    /\ pc' = IF joined + 1 = spawned THEN "snapshot" ELSE "join"
    /\ UNCHANGED scan_vars
    /\ UNCHANGED <<files, chunks, spawned, t_pc, t_files, t_idx, t_scan,
                   t_pos, t_entry, buf_map, lock, iter_keys, result>>

\* lines 55-58: the sequential loop has run through the list
SeqDone ==
    /\ pc = "seq"
    /\ t_pc[Main] = "done"
    /\ pc' = "snapshot"
    /\ UNCHANGED scan_vars
    /\ UNCHANGED <<files, chunks, spawned, joined, t_pc, t_files, t_idx,
                   t_scan, t_pos, t_entry, buf_map, lock, iter_keys, result>>

\* a lock that excludes nobody
CanLockAlways == TRUE

\* Mutex::lock returns when no thread holds the mutex
CanLock == lock = NoThread

\* the orders in which the keys of a map can be iterated
RECURSIVE Orders(_)
Orders(S) ==
    IF S = {}
    THEN { <<>> }
    ELSE UNION { { <<k>> \o o : o \in Orders(S \ {k}) } : k \in S }

\* lines 60-63: lock the map and clone every bucket into result.info
Snapshot ==
    /\ pc = "snapshot"
    /\ CanLock
    /\ lock' = Main
    /\ \E order \in Orders(DOMAIN buf_map) :
          /\ iter_keys' = order
          /\ result' = [result EXCEPT
                           !.info = [i \in 1..Len(order) |-> buf_map[order[i]]]]
    /\ pc' = "assign"
    /\ UNCHANGED scan_vars
    /\ UNCHANGED <<files, chunks, spawned, joined, t_pc, t_files, t_idx,
                   t_scan, t_pos, t_entry, buf_map>>

RECURSIVE SumField(_, _)
SumField(infos, field) ==
    IF infos = <<>>
    THEN 0
    ELSE Head(infos)[field] + SumField(Tail(infos), field)

\* totals that count the buckets, not the files
assign_alls_buckets(r) ==
    [r EXCEPT !.all_steps = @ + SumField(r.info, "steps"),
              !.all_blanks = @ + SumField(r.info, "blanks"),
              !.all_comments = @ + SumField(r.info, "comments"),
              !.all_files = @ + Len(r.info),
              !.all_bytes = @ + SumField(r.info, "bytes")]

\* CntResult::assign_alls
assign_alls(r) ==
    [r EXCEPT !.all_steps = @ + SumField(r.info, "steps"),
              !.all_blanks = @ + SumField(r.info, "blanks"),
              !.all_comments = @ + SumField(r.info, "comments"),
              !.all_files = @ + SumField(r.info, "files"),
              !.all_bytes = @ + SumField(r.info, "bytes")]

\* lines 64-66: the totals, Ok(result), and the guard of the map is dropped
AssignAlls ==
    /\ pc = "assign"
    /\ result' = assign_alls(result)
    /\ pc' = "done"
    /\ lock' = NoThread
    /\ UNCHANGED scan_vars
    /\ UNCHANGED <<files, chunks, spawned, joined, t_pc, t_files, t_idx,
                   t_scan, t_pos, t_entry, buf_map, iter_keys>>

(***************************************************************************)
(* process_files / process_file / count_file, run by a thread t: the main  *)
(* thread on the sequential path, a worker on the concurrent path.         *)
(***************************************************************************)
CurFile(t) == FS[t_files[t][t_idx[t]]]

\* an error that is never returned to the caller
PropagatesNever(t) == FALSE

\* line 56: the main thread returns the error of process_file with `?`;
\* line 110: a worker prints it
Propagates(t) == t = Main

\* an error that ends the worker's loop
AfterErrAbort(t) == Len(t_files[t]) + 1

\* lines 109-113: after an error the worker's loop goes on with the next file
AfterErr(t) == t_idx[t] + 1

\* the thread has finished the file at t_idx[t] and goes on with the file at
\* position next
GoOn(t, next) ==
    /\ t_idx' = [t_idx EXCEPT ![t] = next]
    /\ t_pc' = [t_pc EXCEPT ![t] = IF next > Len(t_files[t]) THEN "done" ELSE "open"]

\* process_file returned Err
Fail(t) ==
    IF Propagates(t)
    THEN /\ pc' = "err"
         /\ t_pc' = [t_pc EXCEPT ![t] = "failed"]
         /\ UNCHANGED t_idx
    ELSE /\ GoOn(t, AfterErr(t))
         /\ UNCHANGED pc

\* a block state that outlives the call of count_file
StaleScan(t) ==
    [ScanStart(CurFile(t).path) EXCEPT
        !.in_block_comment = t_scan[t].in_block_comment]

\* lines 69, 74 and 76: info and in_block_comment are locals of count_file,
\* new in every call
FreshScan(t) == ScanStart(CurFile(t).path)

\* lines 69-76: File::open succeeds
OpenOk(t) ==
    /\ t_pc[t] = "open"
    /\ CurFile(t).readable
    /\ t_scan' = [t_scan EXCEPT ![t] = FreshScan(t)]
    /\ t_pos' = [t_pos EXCEPT ![t] = 0]
    /\ t_pc' = [t_pc EXCEPT ![t] = IF CurFile(t).lines = <<>> THEN "lock" ELSE "read"]
    /\ UNCHANGED scan_vars
    /\ UNCHANGED <<files, pc, chunks, spawned, joined, t_files, t_idx,
                   t_entry, buf_map, lock, iter_keys, result>>

\* line 71: File::open fails
OpenErr(t) ==
    /\ t_pc[t] = "open"
    /\ ~CurFile(t).readable
    /\ Fail(t)
    /\ UNCHANGED scan_vars
    /\ UNCHANGED <<files, chunks, spawned, joined, t_files, t_scan, t_pos,
                   t_entry, buf_map, lock, iter_keys, result>>

\* lines 77-104: one line is read and counted; after the last line the scan
\* returns Ok(info)
ReadLine(t) ==
    /\ t_pc[t] = "read"
    /\ t_pos[t] + 1 # CurFile(t).bad_at
    /\ LET n == t_pos[t] + 1
       IN  /\ t_scan' = [t_scan EXCEPT
                            ![t] = ScanLine(@, LineText[CurFile(t).lines[n]])]
           /\ t_pos' = [t_pos EXCEPT ![t] = n]
           /\ t_pc' = [t_pc EXCEPT
                          ![t] = IF n = Len(CurFile(t).lines) THEN "lock" ELSE "read"]
    /\ UNCHANGED scan_vars
    /\ UNCHANGED <<files, pc, chunks, spawned, joined, t_files, t_idx,
                   t_entry, buf_map, lock, iter_keys, result>>

\* line 78: the read of a line fails
ReadErr(t) ==
    /\ t_pc[t] = "read"
    /\ t_pos[t] + 1 = CurFile(t).bad_at
    /\ Fail(t)
    /\ UNCHANGED scan_vars
    /\ UNCHANGED <<files, chunks, spawned, joined, t_files, t_scan, t_pos,
                   t_entry, buf_map, lock, iter_keys, result>>

\* line 118: buf_map.lock()
Lock(t) ==
    /\ t_pc[t] = "lock"
    /\ CanLock
    /\ lock' = t
    /\ t_pc' = [t_pc EXCEPT ![t] = "entry"]
    /\ UNCHANGED scan_vars
    /\ UNCHANGED <<files, pc, chunks, spawned, joined, t_files, t_idx,
                   t_scan, t_pos, t_entry, buf_map, iter_keys, result>>

\* an insert that replaces the bucket that is there
insert_default(map, key) ==
    [k \in DOMAIN map \cup {key} |->
        IF k = key THEN FileInfoDefault ELSE map[k]]

\* HashMap::entry(key).or_insert_with(FileInfo::default)
or_insert_default(map, key) ==
    IF key \in DOMAIN map
    THEN map
    ELSE [k \in DOMAIN map \cup {key} |->
            IF k = key THEN FileInfoDefault ELSE map[k]]

\* line 120: the bucket of the file's type, created if absent
Entry(t) ==
    /\ t_pc[t] = "entry"
    /\ LET key == t_scan[t].info.filetype
       IN  /\ buf_map' = or_insert_default(buf_map, key)
           /\ t_entry' = [t_entry EXCEPT ![t] = buf_map'[key]]
    /\ t_pc' = [t_pc EXCEPT ![t] = "update"]
    /\ UNCHANGED scan_vars
    /\ UNCHANGED <<files, pc, chunks, spawned, joined, t_files, t_idx,
                   t_scan, t_pos, lock, iter_keys, result>>

\* a merge that forgets the files counter
MergedNoFiles(entry, file_info) ==
    [entry EXCEPT !.steps = @ + file_info.steps,
                  !.blanks = @ + file_info.blanks,
                  !.comments = @ + file_info.comments,
                  !.bytes = @ + file_info.bytes]

\* lines 121-125: the bucket after the file's counts are added
Merged(entry, file_info) ==
    [entry EXCEPT !.steps = @ + file_info.steps,
                  !.blanks = @ + file_info.blanks,
                  !.comments = @ + file_info.comments,
                  !.bytes = @ + file_info.bytes,
                  !.files = @ + 1]

\* a guard that is never dropped
StillLocked(t) == t

\* line 128: the MutexGuard goes out of scope at the end of process_file
Unlocked(t) == NoThread

\* lines 121-128: the counts are added to the bucket, the guard is dropped
\* and process_file returns Ok
Update(t) ==
    /\ t_pc[t] = "update"
    /\ buf_map' = [buf_map EXCEPT
                      ![t_scan[t].info.filetype] = Merged(t_entry[t], t_scan[t].info)]
    /\ lock' = Unlocked(t)
    /\ GoOn(t, t_idx[t] + 1)
    /\ UNCHANGED scan_vars
    /\ UNCHANGED <<files, pc, chunks, spawned, joined, t_files, t_scan,
                   t_pos, t_entry, iter_keys, result>>

Next ==
    \/ StartConcurrent
    \/ StartSequential
    \/ Spawn
    \/ Join
    \/ SeqDone
    \/ Snapshot
    \/ AssignAlls
    \/ \E t \in Threads : OpenOk(t)
    \/ \E t \in Threads : OpenErr(t)
    \/ \E t \in Threads : ReadLine(t)
    \/ \E t \in Threads : ReadErr(t)
    \/ \E t \in Threads : Lock(t)
    \/ \E t \in Threads : Entry(t)
    \/ \E t \in Threads : Update(t)

Spec == Init /\ [][Next]_vars

(***************************************************************************)
(* Scheduling.  Every thread that can take a step is eventually run: the   *)
(* operating system schedules each runnable thread, a read of a finite     *)
(* file returns, and a thread blocked in Mutex::lock is woken when the     *)
(* mutex is free.                                                          *)
(***************************************************************************)
\* the steps of count itself
DispatcherStep ==
    \/ StartConcurrent
    \/ StartSequential
    \/ Spawn
    \/ Join
    \/ SeqDone
    \/ Snapshot
    \/ AssignAlls

\* the steps of the thread t in process_files / process_file / count_file
ThreadStep(t) ==
    \/ OpenOk(t)
    \/ OpenErr(t)
    \/ ReadLine(t)
    \/ ReadErr(t)
    \/ Lock(t)
    \/ Entry(t)
    \/ Update(t)

Fairness ==
    /\ WF_vars(DispatcherStep)
    /\ \A t \in Threads : WF_vars(ThreadStep(t))

\* the lists termination is checked on: any length up to MaxFiles, at most
\* one file that is not the default one, at any place
FairLists ==
    { list \in FileLists :
        \A i, j \in DOMAIN list :
            (list[i] # DefaultFile /\ list[j] # DefaultFile) => i = j }

FairInit ==
    /\ \E list \in FairLists : CountInit(list)
    /\ ScanOff

FairSpec == FairInit /\ [][Next]_vars /\ Fairness

(***************************************************************************)
(* count_file on its own, line by line, on a file whose lines are drawn    *)
(* from LineText.                                                          *)
(***************************************************************************)
ScanInit ==
    /\ CountInit(<<>>)
    /\ s_pc = "open"
    /\ s_scan = ScanIdle
    /\ s_lines = <<>>
    /\ s_cats = <<>>

\* how a line was counted, read off the counters
Category(before, after) ==
    IF after.info.blanks > before.info.blanks
    THEN "Blank"
    ELSE IF after.info.comments > before.info.comments
    THEN "Comment"
    ELSE "Code"

\* lines 69-76
ScanOpen ==
    /\ s_pc = "open"
    /\ s_pc' = "read"
    /\ s_scan' = ScanStart(FS[DefaultFile].path)
    /\ UNCHANGED <<s_lines, s_cats>>
    /\ UNCHANGED count_vars

\* line 71
ScanOpenErr ==
    /\ s_pc = "open"
    /\ s_pc' = "err"
    /\ UNCHANGED <<s_scan, s_lines, s_cats>>
    /\ UNCHANGED count_vars

\* lines 77-104, one iteration
ScanRead ==
    /\ s_pc = "read"
    /\ Len(s_lines) < MaxLines
    /\ \E l \in LineIds :
          /\ s_scan' = ScanLine(s_scan, LineText[l])
          /\ s_lines' = Append(s_lines, l)
          /\ s_cats' = Append(s_cats, Category(s_scan, s_scan'))
    /\ UNCHANGED s_pc
    /\ UNCHANGED count_vars

\* line 78: the read of the next line fails, count_file returns Err
ScanReadErr ==
    /\ s_pc = "read"
    /\ s_pc' = "err"
    /\ UNCHANGED <<s_scan, s_lines, s_cats>>
    /\ UNCHANGED count_vars

\* line 105: no line is left, count_file returns Ok(info)
ScanEof ==
    /\ s_pc = "read"
    /\ s_pc' = "ok"
    /\ UNCHANGED <<s_scan, s_lines, s_cats>>
    /\ UNCHANGED count_vars

ScanNext ==
    \/ ScanOpen
    \/ ScanOpenErr
    \/ ScanRead
    \/ ScanReadErr
    \/ ScanEof

ScanSpec == ScanInit /\ [][ScanNext]_vars

(***************************************************************************)
(* What the file list should add up to, computed file by file from         *)
(* count_file, independently of any schedule.                              *)
(***************************************************************************)
TagOf(f) == ret_file_type(FS[f].path)

OkPositions(list) == { i \in DOMAIN list : count_file(list[i]).ok }

OkTags(list) == { TagOf(list[i]) : i \in OkPositions(list) }

CountFields == {"steps", "blanks", "comments", "bytes", "files"}

\* what one file adds to a field of a bucket
Contribution(f, field) ==
    IF field = "files" THEN 1 ELSE count_file(f).info[field]

\* the sum of a field over the files of the list that scan and carry the tag
RECURSIVE ExpectedOfTag(_, _, _)
ExpectedOfTag(list, tag, field) ==
    IF list = <<>>
    THEN 0
    ELSE (IF count_file(Head(list)).ok /\ TagOf(Head(list)) = tag
          THEN Contribution(Head(list), field)
          ELSE 0) + ExpectedOfTag(Tail(list), tag, field)

\* the sum of a field over all files of the list that scan
RECURSIVE ExpectedTotal(_, _)
ExpectedTotal(list, field) ==
    IF list = <<>>
    THEN 0
    ELSE (IF count_file(Head(list)).ok
          THEN Contribution(Head(list), field)
          ELSE 0) + ExpectedTotal(Tail(list), field)

Returned == pc = "done"

\* C1: on the concurrent path, when count returns, there is exactly one
\* bucket per tag of a successfully scanned file, and each bucket's steps,
\* blanks, comments and bytes are the sums of the scan results of the input
\* files with that tag that scanned successfully, its files their number:
\* no merge is lost, duplicated or torn, under any interleaving.
C1_MergesExact ==
    (Returned /\ Concurrent(files)) =>
        /\ DOMAIN buf_map = OkTags(files)
        /\ Len(result.info) = Cardinality(OkTags(files))
        /\ { iter_keys[i] : i \in DOMAIN iter_keys } = OkTags(files)
        /\ \A i \in DOMAIN result.info : \A field \in CountFields :
              /\ result.info[i][field] = ExpectedOfTag(files, iter_keys[i], field)
              /\ buf_map[iter_keys[i]][field] = result.info[i][field]

\* C1 witness: count has returned on the concurrent path with a bucket that
\* five files of all three chunks were merged into, and a second bucket
C1_Witness ==
    /\ Returned
    /\ Concurrent(files)
    /\ Len(result.info) = 2
    /\ \E i \in DOMAIN result.info : result.info[i].files = 5

\* C2: on the concurrent path an I/O error on a file never makes count fail,
\* and when count returns the five grand totals are the sums over exactly
\* the files that scanned successfully: every other file of the failed
\* file's chunk and of the other chunks was merged, the failed file adds
\* nothing to any bucket or total.
C2_FailSoft ==
    Concurrent(files) =>
        /\ pc # "err"
        /\ \A w \in Workers : t_pc[w] # "failed"
        /\ Returned =>
              /\ result.all_steps = ExpectedTotal(files, "steps")
              /\ result.all_blanks = ExpectedTotal(files, "blanks")
              /\ result.all_comments = ExpectedTotal(files, "comments")
              /\ result.all_bytes = ExpectedTotal(files, "bytes")
              /\ result.all_files = Cardinality(OkPositions(files))
              /\ \A k \in DOMAIN buf_map : \A field \in CountFields :
                    buf_map[k][field] = ExpectedOfTag(files, k, field)

\* C2 witness: count has returned for exactly 6 files, the first of them
\* unreadable, with the 5 other files counted
C2_Witness ==
    /\ Returned
    /\ Len(files) = 6
    /\ ~FS[files[1]].readable
    /\ Cardinality(OkPositions(files)) = 5
    /\ result.all_files = 5

\* the position of the first file of the list whose scan fails, 0 if none
FirstFailure(list) ==
    IF \E i \in DOMAIN list : ScanFails(list[i])
    THEN CHOOSE i \in DOMAIN list :
            /\ ScanFails(list[i])
            /\ \A j \in 1..(i - 1) : ~ScanFails(list[j])
    ELSE 0

\* the files merged so far, counted over all buckets
MergedFiles ==
    LET RECURSIVE Sum(_)
        Sum(S) == IF S = {} THEN 0
                  ELSE LET k == CHOOSE x \in S : TRUE
                       IN  buf_map[k].files + Sum(S \ {k})
    IN  Sum(DOMAIN buf_map)

\* C3: on the sequential path only the calling thread works, it takes the
\* files one at a time in list order (the files before the current one are
\* exactly the merged ones), it never gets past the first file whose scan
\* fails, and at that file count returns the error with no result filled
\* in; count returns a result only when no file failed.
C3_FailFast ==
    (pc # "start" /\ ~Concurrent(files)) =>
        /\ \A w \in Workers : t_pc[w] = "idle"
        /\ \A j \in 1..(t_idx[Main] - 1) : ~ScanFails(files[j])
        /\ t_pc[Main] \in {"open", "read", "lock", "failed", "done"} =>
              MergedFiles = t_idx[Main] - 1
        /\ pc = "err" =>
              /\ t_idx[Main] = FirstFailure(files)
              /\ t_pc[Main] = "failed"
              /\ result = [CntResultDefault EXCEPT !.input_path = InputPath]
        /\ pc \in {"snapshot", "assign", "done"} => FirstFailure(files) = 0

\* C3 witness: exactly 5 files, the 3rd one unreadable: count has returned
\* the error, two files are merged in the map and the result is empty
C3_Witness ==
    /\ Len(files) = 5
    /\ pc = "err"
    /\ t_idx[Main] = 3
    /\ ~FS[files[3]].readable
    /\ MergedFiles = 2
    /\ result.info = <<>>

\* the sum of a field over a sequence of FileInfo records
Fold(infos, field) ==
    LET RECURSIVE Upto(_)
        Upto(n) == IF n = 0 THEN 0 ELSE Upto(n - 1) + infos[n][field]
    IN  Upto(Len(infos))

Totals(r) ==
    [steps |-> r.all_steps, blanks |-> r.all_blanks,
     comments |-> r.all_comments, files |-> r.all_files, bytes |-> r.all_bytes]

\* C4: in a returned CntResult each of the five grand totals is the sum of
\* its field over the records of info, and until count returns the totals
\* are still zero: they are computed once, after the snapshot, not while
\* files are merged.
C4_TotalsAreFold ==
    /\ Returned => \A field \in CountFields :
                      Totals(result)[field] = Fold(result.info, field)
    /\ ~Returned => \A field \in CountFields : Totals(result)[field] = 0

\* C4 witness: a returned result with two buckets and six files
C4_Witness ==
    /\ Returned
    /\ Len(result.info) = 2
    /\ result.all_files = 6
    /\ result.all_steps > 0

\* C5: on the concurrent path, once the map has been read for the result,
\* every chunk has been spawned and joined, every worker has finished all
\* files of its chunk, and the map still holds what the snapshot took: no
\* merge happens after the snapshot.
C5_SnapshotAfterJoin ==
    (Concurrent(files) /\ pc \in {"assign", "done"}) =>
        /\ spawned = Len(chunks)
        /\ joined = spawned
        /\ \A w \in 1..Len(chunks) :
              /\ t_pc[w] = "done"
              /\ t_idx[w] = Len(t_files[w]) + 1
        /\ DOMAIN buf_map = { iter_keys[i] : i \in DOMAIN iter_keys }
        /\ \A i \in DOMAIN result.info : result.info[i] = buf_map[iter_keys[i]]

\* C5 witness: the snapshot is taken on the concurrent path, of a map with
\* two buckets, before the totals are computed
C5_Witness ==
    /\ Concurrent(files)
    /\ pc = "assign"
    /\ Len(result.info) = 2
    /\ joined = 3

\* C6: every record of a returned CntResult has files >= 1, and its bucket
\* is the bucket of a tag that some file of the list scanned successfully
\* with: a tag whose files all failed has no bucket.
C6_FilesPositive ==
    Returned =>
        /\ \A i \in DOMAIN result.info : result.info[i].files >= 1
        /\ \A k \in DOMAIN buf_map : k \in OkTags(files)
        /\ \A i \in DOMAIN iter_keys : iter_keys[i] \in OkTags(files)

\* C6 witness: count has returned on the concurrent path for a list with an
\* unreadable file, whose tag has no bucket
C6_Witness ==
    /\ Returned
    /\ Concurrent(files)
    /\ \E j \in DOMAIN files :
          /\ ~FS[files[j]].readable
          /\ TagOf(files[j]) \notin DOMAIN buf_map
    /\ result.info # <<>>

\* blanks and comments never exceed the lines read
Bounded(info) == info.blanks + info.comments <= info.steps

\* thread t reads a line of its current file
ReadsLine(t) == t_pc[t] = "read" /\ t_pos'[t] = t_pos[t] + 1

\* C7: every line a thread reads increments steps by exactly 1 and at most
\* one of blanks and comments by 1; blanks + comments <= steps holds at
\* every point of every scan, for every bucket of the map after any
\* sequence of merges, and for every record of the result.
C7_CodeLinesNonNegative ==
    /\ [](/\ \A t \in Threads : Bounded(t_scan[t].info)
          /\ \A k \in DOMAIN buf_map : Bounded(buf_map[k])
          /\ \A i \in DOMAIN result.info : Bounded(result.info[i]))
    /\ [][\A t \in Threads : ReadsLine(t) =>
            /\ t_scan'[t].info.steps = t_scan[t].info.steps + 1
            /\ t_scan'[t].info.blanks - t_scan[t].info.blanks \in {0, 1}
            /\ t_scan'[t].info.comments - t_scan[t].info.comments \in {0, 1}
            /\ (t_scan'[t].info.blanks + t_scan'[t].info.comments)
                 - (t_scan[t].info.blanks + t_scan[t].info.comments) \in {0, 1}]_vars

\* C7 witness: a worker has read a code line, two comment lines and a blank
\* line of its file, while a bucket holds the merges of two files
C7_Witness ==
    /\ \E t \in Workers :
          /\ t_pc[t] = "lock"
          /\ t_scan[t].info.steps = 4
          /\ t_scan[t].info.comments = 2
          /\ t_scan[t].info.blanks = 1
    /\ \E k \in DOMAIN buf_map : buf_map[k].files = 2 /\ buf_map[k].comments = 2

(***************************************************************************)
(* Claims about the scan of one file, checked under ScanSpec.              *)
(***************************************************************************)
\* the i-th line read, trimmed
Trimmed(i) == Trim(LineText[s_lines[i]])

\* C8: a line that is non-empty after trim and starts with a single-line
\* comment prefix is counted as a comment (comments + 1, blanks unchanged)
\* and leaves in_block_comment as it was, inside or outside a block, also
\* when the line starts with a block-open marker as well.
C8_SingleLinePriority ==
    [][Len(s_lines') = Len(s_lines) + 1 =>
        LET line == Trim(LineText[s_lines'[Len(s_lines')]])
        IN  (line # EmptyStr /\ is_single_comment(line)) =>
                /\ s_cats'[Len(s_cats')] = "Comment"
                /\ s_scan'.info.comments = s_scan.info.comments + 1
                /\ s_scan'.info.blanks = s_scan.info.blanks
                /\ s_scan'.in_block_comment = s_scan.in_block_comment]_vars

\* C8 witness: "-- x", in both tables, was read outside a block and again
\* inside the block opened by "/* start": three comments, still inside
C8_Witness ==
    /\ s_lines = <<7, 3, 7>>
    /\ is_single_comment(Trimmed(1)) /\ is_begin_block_comments(Trimmed(1))
    /\ s_cats = <<"Comment", "Comment", "Comment">>
    /\ s_scan.in_block_comment

\* the i-th line read matches none of the rules for blank lines, single-line
\* comments and block openers
MatchesNoEarlierRule(i) ==
    /\ Trimmed(i) # EmptyStr
    /\ ~is_single_comment(Trimmed(i))
    /\ ~is_begin_block_comments(Trimmed(i))

\* the i-th line read matches no earlier rule and ends with a close marker
Closes(i) == MatchesNoEarlierRule(i) /\ is_end_block_comments(Trimmed(i))

\* the i-th line read starts with a block-open marker
StartsWithOpen(i) == is_begin_block_comments(Trimmed(i))

\* the i-th line read starts with a block-open marker and with no
\* single-line comment prefix
OpensBlock(i) == StartsWithOpen(i) /\ ~is_single_comment(Trimmed(i))

\* j is the first line after i that closes a block
FirstCloseAfter(i, j) ==
    i < j /\ Closes(j) /\ \A m \in (i + 1)..(j - 1) : ~Closes(m)

\* the example of the specification: "/* start", "still inside", "end */",
\* "code();"
ExampleLines == <<3, 4, 5, 6>>

ExampleHolds ==
    /\ s_lines = ExampleLines => s_cats = <<"Comment", "Comment", "Comment", "Code">>
    /\ s_lines = SubSeq(ExampleLines, 1, 3) => ~s_scan.in_block_comment

\* block-comment persistence after the lines that Opener holds of
Persistence(Opener(_)) ==
    LET n == Len(s_lines)
    IN  /\ \A i \in 1..n : \A j \in (i + 1)..n :
              (/\ Opener(i)
               /\ MatchesNoEarlierRule(j)
               /\ \A m \in (i + 1)..(j - 1) : ~Closes(m))
              => s_cats[j] = "Comment"
        /\ \A i \in 1..n :
              (Opener(i) /\ FirstCloseAfter(i, n)) => ~s_scan.in_block_comment
        /\ \A i \in 1..n : \A j \in (i + 1)..n : \A k \in (j + 1)..n :
              (/\ Opener(i)
               /\ FirstCloseAfter(i, j)
               /\ MatchesNoEarlierRule(k)
               /\ \A m \in (j + 1)..(k - 1) : ~Opener(m))
              => s_cats[k] = "Code"

\* C9 as stated: after a line that starts with a block-open marker, every
\* following line that matches no earlier rule is a comment, up to and
\* including the first one that ends with a close marker; the state is then
\* outside the block and the next marker-free line is code; the example
\* gives Comment, Comment, Comment, Code.
C9_AsStated == Persistence(StartsWithOpen) /\ ExampleHolds

\* C9 amended: the same, after a line that starts with a block-open marker
\* and with no single-line comment prefix (a line such as "-- x" or "#= j"
\* opens no block).
C9_BlockPersistence == Persistence(OpensBlock) /\ ExampleHolds

\* C9 witness: the four lines of the example were read
C9_Witness ==
    /\ s_lines = ExampleLines
    /\ OpensBlock(1) /\ FirstCloseAfter(1, 3)
    /\ s_cats = <<"Comment", "Comment", "Comment", "Code">>
    /\ ~s_scan.in_block_comment

\* C10: every record of a returned CntResult carries in filetype the tag of
\* its bucket, the key it was stored under in the map.
C10_FiletypeIsTag ==
    Returned => \A i \in DOMAIN result.info : result.info[i].filetype = iter_keys[i]

(***************************************************************************)
(* Claims about the dispatcher's partition of the file list.               *)
(***************************************************************************)
\* the least c with 3 * c >= n
CeilThird(n) == CHOOSE c \in 0..n : 3 * c >= n /\ (c = 0 \/ 3 * (c - 1) < n)

\* the concatenation of a sequence of sequences
RECURSIVE Flatten(_)
Flatten(ss) == IF ss = <<>> THEN <<>> ELSE Head(ss) \o Flatten(Tail(ss))

\* count has taken the concurrent path
OnConcurrentPath == pc \in {"spawn", "join"} \/ chunks # <<>> \/ spawned > 0

\* count has taken the sequential path
OnSequentialPath == pc \in {"seq", "err"} \/ t_pc[Main] # "idle"

RECURSIVE SumTrimmedLen(_)
SumTrimmedLen(n) ==
    IF n = 0 THEN 0 ELSE SumTrimmedLen(n - 1) + ByteLen(Trimmed(n))

\* the lines "-- x", " " and "/* xyz. */": 4, 0 and 10 bytes after trim
ByteExample == <<7, 1, 8>>

\* C12: at every point of a scan, and when it returns Ok, steps is the
\* number of lines read and bytes is the sum over the lines read of (length
\* in bytes of the trimmed line + 1), so bytes = sum of the trimmed lengths
\* + steps and bytes >= steps; three lines of trimmed lengths 4, 0 and 10
\* give 17.
C12_BytesApproximation ==
    s_pc \in {"read", "ok"} =>
        /\ s_scan.info.steps = Len(s_lines)
        /\ s_scan.info.bytes = SumTrimmedLen(Len(s_lines)) + s_scan.info.steps
        /\ s_scan.info.bytes >= s_scan.info.steps
        /\ s_lines = ByteExample => s_scan.info.bytes = 17

\* C12 witness: the scan of the three lines of trimmed lengths 4, 0 and 10
\* has returned Ok with 17 bytes
C12_Witness ==
    /\ s_pc = "ok"
    /\ s_lines = ByteExample
    /\ Len(Trimmed(1)) = 4 /\ Len(Trimmed(2)) = 0 /\ Len(Trimmed(3)) = 10
    /\ s_scan.info.bytes = 17

(***************************************************************************)
(* Claims about the file-type tag.                                         *)
(***************************************************************************)
\* the tags of the files of FS, written out: "rs" for src/main.rs, "RS" for
\* Main.RS, "py" for lib.py and "Makefile" for Makefile
ExpectedTag ==
    << <<"r", "s">>, <<"R", "S">>, <<"p", "y">>,
       <<"M", "a", "k", "e", "f", "i", "l", "e">> >>

\* the file thread t is working on
CurFileId(t) == t_files[t][t_idx[t]]

\* the positions of the list whose file scans and has the tag
OkWithTag(tag) ==
    { i \in DOMAIN files : ~ScanFails(files[i]) /\ ExpectedTag[files[i]] = tag }

\* C13: from the moment a file is open and before any of its lines is read,
\* the scan carries the file's tag and keeps it to the merge: the extension
\* if the path has one, else the bare file name ("src/main.rs" gives "rs",
\* "Makefile" gives "Makefile"), with the case kept ("Main.RS" gives "RS");
\* a file is merged into the bucket of exactly its tag, so when count
\* returns two files are in the same bucket exactly when their tags are
\* equal strings.
C13_TagFromPath ==
    /\ \A t \in Threads :
          t_pc[t] \in {"read", "lock", "entry", "update"} =>
              t_scan[t].info.filetype = ExpectedTag[CurFileId(t)]
    /\ \A t \in Threads :
          t_pc[t] = "update" => ExpectedTag[CurFileId(t)] \in DOMAIN buf_map
    /\ Returned =>
          /\ DOMAIN buf_map = { ExpectedTag[files[i]] : i \in OkPositions(files) }
          /\ \A k \in DOMAIN buf_map : buf_map[k].files = Cardinality(OkWithTag(k))

\* C13 witness: count has returned with a bucket "rs" and a bucket "RS",
\* for a list with src/main.rs and Main.RS
C13_Witness ==
    /\ Returned
    /\ DOMAIN buf_map = { <<"r", "s">>, <<"R", "S">> }
    /\ buf_map[<<"R", "S">>].files = 1
    /\ buf_map[<<"r", "s">>].files >= 1

\* C13, second witness of the same case: the scan of Makefile carries the
\* tag "Makefile" before its first line is read
C13_MakefileSeen ==
    \E t \in Threads :
        /\ t_pc[t] = "read"
        /\ t_pos[t] = 0
        /\ t_scan[t].info.filetype = <<"M", "a", "k", "e", "f", "i", "l", "e">>

(***************************************************************************)
(* Claims about the files counter.                                         *)
(***************************************************************************)
\* the distinct files, by path, that scan and have the tag
DistinctOkWithTag(tag) == { FS[files[i]].path : i \in OkWithTag(tag) }

\* C14: for any file list, also one that names a path more than once, a
\* bucket's files is the number of distinct files merged into it.
C14_FilesAreDistinct ==
    Returned =>
        \A k \in DOMAIN buf_map :
            buf_map[k].files = Cardinality(DistinctOkWithTag(k))

(***************************************************************************)
(* Claims about the mutex of the map.                                      *)
(***************************************************************************)
\* thread t is inside process_file, at a file of its list
AtFile(t) == t_pc[t] \in {"open", "read", "lock", "entry", "update"}

\* thread t is scanning: count_file has not returned yet
Scanning(t) == t_pc[t] \in {"open", "read"}

\* thread t is inside the merge of a file
Merging(t) == t_pc[t] \in {"entry", "update"}

\* C15: a thread holds the mutex of the map exactly while it merges one
\* file: never while it scans, only after the scan of the file has read all
\* its lines and returned Ok, and no longer when it goes on to its next
\* file; at most one thread is inside a merge; a thread whose current file
\* fails to scan never holds the mutex.  The only other holder is count
\* itself, for the snapshot.
C15_LockOnlyForMerge ==
    /\ \A t \in Threads : Merging(t) <=> (lock = t /\ pc \notin {"assign", "done"})
    /\ \A t \in Threads : Scanning(t) => lock # t
    /\ \A t \in Threads :
          Merging(t) =>
              /\ ~ScanFails(CurFileId(t))
              /\ t_pos[t] = Len(CurFile(t).lines)
              /\ t_scan[t].info = count_file(CurFileId(t)).info
    /\ \A t \in Threads :
          (AtFile(t) /\ ScanFails(CurFileId(t))) => (Scanning(t) /\ lock # t)
    /\ Cardinality({ t \in Threads : Merging(t) }) <= 1
    /\ lock \in Workers => Merging(lock)

\* C15 witness: one worker merges and holds the mutex, a second one is
\* reading a file, the third one waits for the mutex
C15_Witness ==
    \E a, b, c \in Workers :
        /\ t_pc[a] = "update" /\ lock = a
        /\ t_pc[b] = "read" /\ t_pos[b] >= 1
        /\ t_pc[c] = "lock"

(***************************************************************************)
(* Claims about the growth of the map.                                     *)
(***************************************************************************)
\* thread t completes the merge of its current file in this step
CompletesMerge(t) == t_pc[t] = "update" /\ t_pc'[t] # "update"

\* C16: in every step of a count invocation every bucket of the map stays
\* in the map and none of its fields decreases; the step that completes a
\* merge adds exactly 1 to files of the bucket of the merged file and
\* leaves the other buckets as they are, and no other step changes files
\* of a bucket.
C16_MapOnlyGrows ==
    [][/\ \A k \in DOMAIN buf_map :
             /\ k \in DOMAIN buf_map'
             /\ \A field \in CountFields : buf_map'[k][field] >= buf_map[k][field]
       /\ \A t \in Threads :
             CompletesMerge(t) =>
                 LET key == t_scan[t].info.filetype
                 IN  /\ buf_map'[key].files = buf_map[key].files + 1
                     /\ \A k \in DOMAIN buf_map : k # key => buf_map'[k] = buf_map[k]
       /\ (\A t \in Threads : ~CompletesMerge(t)) =>
             /\ \A k \in DOMAIN buf_map : buf_map'[k].files = buf_map[k].files
             /\ \A k \in DOMAIN buf_map' \ DOMAIN buf_map : buf_map'[k].files = 0
      ]_vars

\* C16 witness: while the dispatcher waits for the workers the map holds a
\* bucket that three merges went into and a second bucket
C16_Witness ==
    /\ pc = "join"
    /\ Cardinality(DOMAIN buf_map) = 2
    /\ \E k \in DOMAIN buf_map : buf_map[k].files = 3 /\ buf_map[k].steps = 3
    /\ \E t \in Workers : t_pc[t] = "entry"

(***************************************************************************)
(* Claims about the block-comment state, checked under ScanSpec.           *)
(***************************************************************************)
\* a line is read in this step
ReadsALine == Len(s_lines') = Len(s_lines) + 1

\* the line read in this step, trimmed
LineRead == Trim(LineText[s_lines'[Len(s_lines')]])

\* how the line read in this step was counted
CatRead == s_cats'[Len(s_cats')]

\* a trimmed line that is taken by the block-open rule
IsOpener(line) ==
    line # EmptyStr /\ ~is_single_comment(line) /\ is_begin_block_comments(line)

\* a trimmed line that no rule before the in-block rule takes
IsPlain(line) ==
    line # EmptyStr /\ ~is_single_comment(line) /\ ~is_begin_block_comments(line)

\* C17: block comments do not nest.  A line taken by the block-open rule
\* that is read inside a block is counted as a comment and leaves the scan
\* inside, with nothing recorded but the one boolean; and a line that no
\* earlier rule takes and that ends with a close marker, read inside a
\* block, puts the scan outside, however many block-open lines came before.
C17_NoNesting ==
    [][ReadsALine =>
        /\ (s_scan.in_block_comment /\ IsOpener(LineRead)) =>
              /\ CatRead = "Comment"
              /\ s_scan'.info.comments = s_scan.info.comments + 1
              /\ s_scan'.in_block_comment
        /\ (s_scan.in_block_comment /\ IsPlain(LineRead)
              /\ is_end_block_comments(LineRead)) =>
              /\ CatRead = "Comment"
              /\ ~s_scan'.in_block_comment
        /\ s_scan'.in_block_comment \in BOOLEAN]_vars

\* C17 witness: "/* start" twice, then "end */": one close line has put the
\* scan outside, and "code();" is code
C17_Witness ==
    /\ s_lines = <<3, 3, 5, 6>>
    /\ OpensBlock(1) /\ OpensBlock(2) /\ Closes(3)
    /\ s_cats = <<"Comment", "Comment", "Comment", "Code">>
    /\ ~s_scan.in_block_comment

\* C18: the block state goes from inside to outside only on a line that is
\* non-empty, starts with no single-line prefix and no block-open marker,
\* and ends with a close marker.  A line taken by the block-open rule that
\* also ends with a close marker ("/* xyz. */") leaves the scan inside; a
\* blank line or a line with a single-line prefix ("-->") read inside a
\* block leaves it inside; a line that no earlier rule takes, read inside a
\* block, is a comment.
C18_ExitOnlyOnPlainClose ==
    [][ReadsALine =>
        /\ (s_scan.in_block_comment /\ ~s_scan'.in_block_comment) =>
              /\ LineRead # EmptyStr
              /\ ~is_single_comment(LineRead)
              /\ ~is_begin_block_comments(LineRead)
              /\ is_end_block_comments(LineRead)
        /\ (IsOpener(LineRead) /\ is_end_block_comments(LineRead)) =>
              s_scan'.in_block_comment
        /\ (s_scan.in_block_comment
              /\ (LineRead = EmptyStr \/ is_single_comment(LineRead))) =>
              s_scan'.in_block_comment
        /\ (s_scan.in_block_comment /\ IsPlain(LineRead)) => CatRead = "Comment"]_vars

\* C18 witness: "/* xyz. */", "-->" and a blank line were read and the scan
\* is still inside: "still inside" is a comment
C18_Witness ==
    /\ s_lines = <<8, 9, 1, 4>>
    /\ OpensBlock(1) /\ is_end_block_comments(Trimmed(1))
    /\ is_single_comment(Trimmed(2)) /\ is_end_block_comments(Trimmed(2))
    /\ s_cats = <<"Comment", "Comment", "Blank", "Comment">>
    /\ s_scan.in_block_comment

(***************************************************************************)
(* Claims about what a scan depends on.                                    *)
(***************************************************************************)
\* the scanner state after the first n lines of file f, whatever was
\* scanned before
ScanOfPrefix(f, n) ==
    ScanFrom(ScanStart(FS[f].path), SubSeq(FS[f].lines, 1, n), 1)

\* the scan of file f ends inside an unclosed block comment
EndsInsideBlock(f) ==
    ~ScanFails(f) /\ ScanOfPrefix(f, Len(FS[f].lines)).in_block_comment

\* C19: the block state is local to one scan.  Every scan starts outside a
\* block, at every point the counts and the block state of a scan are those
\* that the lines read so far of that one file give, and the result that is
\* merged is the file's own scan result: neither depends on the files the
\* thread, a worker or the sequential loop, has processed before, also when
\* the previous file ended inside an unclosed block comment.
C19_ScanIsLocal ==
    \A t \in Threads :
        /\ (t_pc[t] = "read" /\ t_pos[t] = 0) => ~t_scan[t].in_block_comment
        /\ t_pc[t] = "read" => t_scan[t] = ScanOfPrefix(CurFileId(t), t_pos[t])
        /\ t_pc[t] \in {"lock", "entry", "update"} =>
              t_scan[t].info = count_file(CurFileId(t)).info

\* C19 witness: a worker has scanned src/main.rs, which ends inside an
\* unclosed block comment, and has read the first line of its next file,
\* Main.RS: "still inside" is counted as code
C19_Witness ==
    \E t \in Workers :
        /\ t_idx[t] = 2
        /\ EndsInsideBlock(t_files[t][1])
        /\ t_files[t][2] = 2
        /\ t_pc[t] = "read"
        /\ t_pos[t] = 1
        /\ t_scan[t].info.steps = 1
        /\ t_scan[t].info.comments = 0
        /\ ~t_scan[t].in_block_comment

(***************************************************************************)
(* Claims about termination.                                               *)
(***************************************************************************)
\* count has returned, Ok(result) or the error of the sequential loop
Returns == pc \in {"done", "err"}

\* the thread t is blocked in Mutex::lock
WaitsForLock(t) ==
    \/ t_pc[t] = "lock"
    \/ t = Main /\ pc = "snapshot"

\* the holder of the mutex is a thread that is about to drop its guard
HolderRuns ==
    lock # NoThread =>
        \/ t_pc[lock] \in {"entry", "update"}
        \/ lock = Main /\ pc = "assign"

\* the thread t has come to the end of its list of files
ThroughItsFiles(t) == t_pc[t] = "done" /\ t_idx[t] = Len(t_files[t]) + 1

\* on the concurrent path count goes past the join and returns only when
\* every chunk has a worker that is through its files and joined
JoinedAll ==
    (Concurrent(files) /\ pc \in {"snapshot", "assign", "done"}) =>
        /\ spawned = Len(chunks)
        /\ joined = spawned
        /\ \A w \in 1..spawned : ThroughItsFiles(w)

\* C20: under fair scheduling count eventually returns, for every list of
\* files.  On the concurrent path it returns only after the join on all
\* workers has completed, each worker through all files of its chunk,
\* unreadable files included.  No state is a deadlock on the lock of the
\* map: whenever a thread waits for the lock some step is possible, and the
\* holder of the lock is a thread on its way to release it.
C20_Terminates ==
    /\ <>Returns
    /\ [](JoinedAll /\ HolderRuns)
    /\ [](\A t \in Threads : WaitsForLock(t) => ENABLED Next)

\* C20 witness: count has returned on the concurrent path for a list with
\* an unreadable file and a file whose read fails or a file of four lines;
\* all three workers are through their chunks and joined
C20_Witness ==
    /\ Concurrent(files)
    /\ \E i \in 1..Len(files) : ~FS[files[i]].readable
    /\ pc = "done"
    /\ joined = 3
    /\ \A w \in Workers : ThroughItsFiles(w)
    /\ lock = NoThread

====
